---- MODULE Spec2Model ----
(***************************************************************************)
(* The snake game of src/snakegame.py as a state machine.                  *)
(*                                                                         *)
(* Positions are pixel pairs <<x, y>> as in the source; the screen is      *)
(* scaled down (GRID_WIDTH x GRID_HEIGHT cells instead of 32 x 24) so that *)
(* the whole game can be explored.  One tick of main()'s loop is the       *)
(* sequence of steps                                                       *)
(*   keys -> update -> move -> eat [-> respawn_eat] -> collide             *)
(*        [-> respawn_reset] -> draw -> keys ...                           *)
(* each step being one call (or one branch) of the loop body.              *)
(***************************************************************************)
EXTENDS Integers, Sequences, FiniteSets, TLC

\* ---------------------------------------------------------------- bounds
\* Grid size in cells (the source has 32 x 24) and the largest snake length
\* explored (the source has no cap: ticks that would grow past it are cut).
GRID_WIDTH == 3
GRID_HEIGHT == 3
MaxLength == 4

\* ------------------------------------------------------------- constants
CELL_SIZE == 20

SCREEN_WIDTH == GRID_WIDTH * CELL_SIZE
SCREEN_HEIGHT == GRID_HEIGHT * CELL_SIZE

UP == <<0, -CELL_SIZE>>
DOWN == <<0, CELL_SIZE>>
LEFT == <<-CELL_SIZE, 0>>
RIGHT == <<CELL_SIZE, 0>>

Direction == {UP, DOWN, LEFT, RIGHT}

\* Python's None (Optional[...] fields).
None == <<>>

\* The events pygame.event.get() can deliver: the quit signal, the four
\* arrow keys, and anything else (another key, a mouse event, ...).
Event == {"QUIT", "K_UP", "K_DOWN", "K_LEFT", "K_RIGHT", "OTHER"}

VARIABLES
    position,        \* snake.position (head alias of GameObject)
    positions,       \* snake.positions, head first
    length,          \* snake.length
    direction,       \* snake.direction
    next_direction,  \* snake.next_direction (pending direction or None)
    last_tail,       \* snake._last_tail (vacated cell or None)
    apple_position,  \* apple.position
    pc,              \* position of main() in its loop body
    observing,       \* whether the observations below are recorded
    dir0,            \* observation: direction at the start of the tick
    first_key,       \* observation: first arrow key drained in this tick,
                     \*   kept until update_direction has run
    last_key,        \* observation: last arrow key drained in this tick
    quit_seen        \* observation: a QUIT event was drained

vars == <<position, positions, length, direction, next_direction, last_tail,
          apple_position, pc, observing, dir0, first_key, last_key, quit_seen>>

obs == <<observing, dir0, first_key, last_key, quit_seen>>

snake == <<position, positions, length, direction, next_direction, last_tail>>

\* ------------------------------------------------------------- functions
wrap_position_nomod(p) == p

Clamp(v, limit) == IF v < 0 THEN 0 ELSE IF v >= limit THEN limit - CELL_SIZE ELSE v

wrap_position_clamp(p) == <<Clamp(p[1], SCREEN_WIDTH), Clamp(p[2], SCREEN_HEIGHT)>>

\* wrap_position: Python's % is floor-mod, as is TLA+'s for a positive divisor.
wrap_position(p) == <<p[1] % SCREEN_WIDTH, p[2] % SCREEN_HEIGHT>>

\* Snake.__init__ / Snake.reset: the center cell.
Center == <<(GRID_WIDTH \div 2) * CELL_SIZE, (GRID_HEIGHT \div 2) * CELL_SIZE>>

get_head_position(ps) == ps[1]

\* x in list
InList(x, ps) == \E i \in 1..Len(ps) : ps[i] = x

\* list[1:]
Rest(ps) == SubSeq(ps, 2, Len(ps))

\* list without its last element (list.pop() applied)
Front(ps) == SubSeq(ps, 1, Len(ps) - 1)

\* ------------------------------------------------- Apple.randomize_position
\* One iteration of the rejection-sampling loop draws a cell; the draw is
\* accepted when it is not in the forbidden list.
Cells_from1 == {<<x * CELL_SIZE, y * CELL_SIZE>> : x \in 1..(GRID_WIDTH - 1), y \in 1..(GRID_HEIGHT - 1)}

Cells == {<<x * CELL_SIZE, y * CELL_SIZE>> : x \in 0..(GRID_WIDTH - 1), y \in 0..(GRID_HEIGHT - 1)}

Accepted_any(p, forbidden) == TRUE

Accepted_head(p, forbidden) == p # forbidden[1]

Accepted(p, forbidden) == ~InList(p, forbidden)

\* A rejected draw leaves every field as it was and the loop goes round again.
randomize_position(forbidden, after) ==
    \E p \in Cells :
        IF Accepted(p, forbidden)
        THEN /\ apple_position' = p
             /\ pc' = after
        ELSE /\ UNCHANGED <<apple_position, pc>>

\* ---------------------------------------------------- Snake.update_direction
IsReverse_never(d, nd) == FALSE

IsReverse_same(d, nd) == d = nd

\* Forbid instant reverse: RIGHT + LEFT = (0, 0)
IsReverse(d, nd) == <<d[1] + nd[1], d[2] + nd[2]>> = <<0, 0>>

Adopted_keep(d, nd) == d

\* the direction update_direction leaves in self.direction
Adopted(d, nd) ==
    IF nd = None THEN d
    ELSE IF IsReverse(d, nd) THEN d
    ELSE nd

\* ------------------------------------------------------------- Snake.move
NewHead(ps, d) == wrap_position(<<get_head_position(ps)[1] + d[1], get_head_position(ps)[2] + d[2]>>)

TailRemoved_ge(n, len) == n >= len

TailRemoved_late(n, len) == n > len + 1

\* if len(self.positions) > self.length
TailRemoved(n, len) == n > len

\* ------------------------------------------------------------ handle_keys
KeyDirection(e) ==
    CASE e = "K_UP" -> UP
      [] e = "K_DOWN" -> DOWN
      [] e = "K_LEFT" -> LEFT
      [] e = "K_RIGHT" -> RIGHT

IsArrow(e) == e \in {"K_UP", "K_DOWN", "K_LEFT", "K_RIGHT"}

Steer_first(nd, e) == IF IsArrow(e) /\ nd = None THEN KeyDirection(e) ELSE nd

\* the if/elif chain on event.key: an arrow key overwrites next_direction
Steer(nd, e) == IF IsArrow(e) THEN KeyDirection(e) ELSE nd

\* ------------------------------------------------------ self-collision test
SelfCollision_never(ps) == FALSE

SelfCollision_inclHead(ps) == InList(get_head_position(ps), ps)

\* head in snake.positions[1:]
SelfCollision(ps) == InList(get_head_position(ps), Rest(ps))

\* ------------------------------------------------------------ Snake.reset
reset_direction_kept == direction

\* self.direction = RIGHT
reset_direction == RIGHT

\* ------------------------------------------------------------------ Init
\* Snake() and Apple() constructed; main() is about to place the apple.
Constructed ==
    /\ position = Center
    /\ positions = <<Center>>
    /\ length = 1
    /\ direction = RIGHT
    /\ next_direction = None
    /\ last_tail = None
    /\ apple_position = <<0, 0>>
    /\ pc = "start"
    /\ dir0 = RIGHT
    /\ first_key = "none"
    /\ last_key = "none"
    /\ quit_seen = FALSE

\* the game alone
Init == Constructed /\ observing = FALSE

\* the game with the drained arrow keys and the tick's first direction recorded
InitObserved == Constructed /\ observing = TRUE

\* --------------------------------------------------------------- actions
\* main(): apple.randomize_position(forbidden=snake.positions) before the loop
InitialPlacement ==
    /\ pc = "start"
    /\ randomize_position(positions, "draw0")
    /\ UNCHANGED <<snake, obs>>

\* main(): apple.draw, snake.draw, display.update before the loop
InitialDraw ==
    /\ pc = "draw0"
    /\ pc' = "keys"
    /\ UNCHANGED <<snake, apple_position, obs>>

AfterQuit_ignored == "keys"

\* raise SystemExit: main() is left
AfterQuit == "exit"

\* handle_keys: one iteration of the loop over the drained events
\* (a QUIT event raises SystemExit, which leaves main()).
HandleEvent ==
    /\ pc = "keys"
    /\ \E e \in Event :
        IF e = "QUIT"
        THEN /\ pc' = AfterQuit
             /\ quit_seen' = observing
             /\ UNCHANGED <<next_direction, first_key, last_key>>
        ELSE /\ next_direction' = Steer(next_direction, e)
             /\ first_key' = IF observing /\ IsArrow(e) /\ first_key = "none" THEN e ELSE first_key
             /\ last_key' = IF observing /\ IsArrow(e) THEN e ELSE last_key
             /\ pc' = pc
             /\ UNCHANGED quit_seen
    /\ UNCHANGED <<position, positions, length, direction, last_tail, apple_position,
                   observing, dir0>>

\* handle_keys: the drained events are exhausted, the function returns
HandleKeysReturn ==
    /\ pc = "keys"
    /\ pc' = "update"
    /\ UNCHANGED <<snake, apple_position, obs>>

\* snake.update_direction()
UpdateDirection ==
    /\ pc = "update"
    /\ direction' = Adopted(direction, next_direction)
    /\ next_direction' = None
    /\ pc' = "move"
    /\ first_key' = "none"
    /\ UNCHANGED <<position, positions, length, last_tail, apple_position,
                   observing, dir0, last_key, quit_seen>>

\* snake.move()
Move ==
    /\ pc = "move"
    /\ LET new_head == NewHead(positions, direction)
           inserted == <<new_head>> \o positions
       IN  /\ IF TailRemoved(Len(inserted), length)
              THEN /\ positions' = Front(inserted)
                   /\ last_tail' = inserted[Len(inserted)]
              ELSE /\ positions' = inserted
                   /\ last_tail' = None
           /\ position' = new_head
    /\ pc' = "eat"
    /\ UNCHANGED <<length, direction, next_direction, apple_position, obs>>

\* Eat apple: the test, and snake.length += 1 when it succeeds
EatStep ==
    /\ pc = "eat"
    /\ IF get_head_position(positions) = apple_position
       THEN /\ length' = length + 1
            /\ pc' = "respawn_eat"
       ELSE /\ length' = length
            /\ pc' = "collide"
    /\ UNCHANGED <<position, positions, direction, next_direction, last_tail,
                   apple_position, obs>>

\* EatStep as long as the snake stays within the length explored
Eat == EatStep /\ length' <= MaxLength

\* apple.randomize_position(forbidden=snake.positions) after eating
RespawnAfterEat ==
    /\ pc = "respawn_eat"
    /\ randomize_position(positions, "collide")
    /\ UNCHANGED <<snake, obs>>

\* Self collision -> reset: the test, and snake.reset() when it succeeds
Collide ==
    /\ pc = "collide"
    /\ IF SelfCollision(positions)
       THEN /\ length' = 1
            /\ positions' = <<Center>>
            /\ direction' = reset_direction
            /\ next_direction' = None
            /\ last_tail' = None
            /\ position' = positions'[1]
            /\ pc' = "respawn_reset"
       ELSE /\ pc' = "draw"
            /\ UNCHANGED snake
    /\ UNCHANGED <<apple_position, obs>>

\* apple.randomize_position(forbidden=snake.positions) after the reset
RespawnAfterReset ==
    /\ pc = "respawn_reset"
    /\ randomize_position(positions, "draw")
    /\ UNCHANGED <<snake, obs>>

\* snake.draw, apple.draw, display.update read the state; then the next
\* iteration starts (clock.tick) with the direction the tick begins with.
Draw ==
    /\ pc = "draw"
    /\ pc' = "keys"
    /\ dir0' = IF observing THEN direction ELSE dir0
    /\ last_key' = "none"
    /\ UNCHANGED <<snake, apple_position, observing, first_key, quit_seen>>

Next ==
    \/ InitialPlacement
    \/ InitialDraw
    \/ HandleEvent
    \/ HandleKeysReturn
    \/ UpdateDirection
    \/ Move
    \/ Eat
    \/ RespawnAfterEat
    \/ Collide
    \/ RespawnAfterReset
    \/ Draw

Spec == Init /\ [][Next]_vars

SpecObserved == InitObserved /\ [][Next]_vars

\* --------------------------------------------------------- the longer game
\* The game explored one segment further, so that a snake long enough to hit
\* itself can still eat.
EatLonger == EatStep /\ length' <= MaxLength + 1

NextLonger ==
    \/ InitialPlacement
    \/ InitialDraw
    \/ HandleEvent
    \/ HandleKeysReturn
    \/ UpdateDirection
    \/ Move
    \/ EatLonger
    \/ RespawnAfterEat
    \/ Collide
    \/ RespawnAfterReset
    \/ Draw

SpecLonger == Init /\ [][NextLonger]_vars

\* ------------------------------------------------------- the guided game
\* The same game with a player who steers along a fixed tour of the torus
\* (right along a row, down at the cell where column + row + 1 is a multiple
\* of the width; the tour visits every cell when the grid is square) and
\* with no cap on the length: the snake never hits itself and grows until
\* it fills the grid.  Every behaviour of it is a behaviour of the game.
TourDirection(p) ==
    IF ((p[1] \div CELL_SIZE) + (p[2] \div CELL_SIZE) + 1) % GRID_WIDTH = 0 THEN DOWN ELSE RIGHT

\* snake.update_direction() when the keys drained made it follow the tour
UpdateDirectionOnTour ==
    /\ UpdateDirection
    /\ direction' = TourDirection(get_head_position(positions))

NextTour ==
    \/ InitialPlacement
    \/ InitialDraw
    \/ HandleEvent
    \/ HandleKeysReturn
    \/ UpdateDirectionOnTour
    \/ Move
    \/ EatStep
    \/ RespawnAfterEat
    \/ Collide
    \/ Draw

\* random.randrange is fair: a loop that keeps drawing eventually draws a
\* cell that is accepted, if there is one
SpecTour ==
    /\ Init
    /\ [][NextTour]_vars
    /\ WF_vars(InitialPlacement)
    /\ WF_vars(RespawnAfterEat)

\* ------------------------------------------------------- claim vocabulary
\* a pixel position that is a cell of the grid
InGrid(p) ==
    /\ p[1] % CELL_SIZE = 0 /\ 0 <= p[1] /\ p[1] < SCREEN_WIDTH
    /\ p[2] % CELL_SIZE = 0 /\ 0 <= p[2] /\ p[2] < SCREEN_HEIGHT

Opposite(d) == <<-d[1], -d[2]>>

NoDuplicates(ps) == \A i, j \in 1..Len(ps) : i # j => ps[i] # ps[j]

HeadOnBody(ps) == \E i \in 2..Len(ps) : ps[i] = ps[1]

CenterCell == <<(GRID_WIDTH \div 2) * CELL_SIZE, (GRID_HEIGHT \div 2) * CELL_SIZE>>

\* one cell further from p in direction d on the torus
Neighbour(p, d) ==
    <<(p[1] + d[1] + SCREEN_WIDTH) % SCREEN_WIDTH, (p[2] + d[2] + SCREEN_HEIGHT) % SCREEN_HEIGHT>>

\* the direction an arrow key asks for ("none": no arrow key drained)
Asked(k) ==
    CASE k = "K_UP" -> <<0, -CELL_SIZE>>
      [] k = "K_DOWN" -> <<0, CELL_SIZE>>
      [] k = "K_LEFT" -> <<-CELL_SIZE, 0>>
      [] k = "K_RIGHT" -> <<CELL_SIZE, 0>>
      [] OTHER -> None

\* ------------------------------------------------------------------- C1
\* C1: in every reachable state every stored position (each segment, the
\* head alias, the food) is a cell of the grid: a multiple of CELL_SIZE
\* with 0 <= x < SCREEN_WIDTH and 0 <= y < SCREEN_HEIGHT.
C1_PositionsInGrid ==
    /\ \A i \in 1..Len(positions) : InGrid(positions[i])
    /\ InGrid(position)
    /\ InGrid(apple_position)

\* the snake has just moved off the left edge and off the top edge
C1_Witness ==
    /\ pc = "eat"
    /\ direction = UP
    /\ Len(positions) = 3
    /\ positions[3] = <<0, 0>>
    /\ positions[2] = <<SCREEN_WIDTH - CELL_SIZE, 0>>
    /\ positions[1] = <<SCREEN_WIDTH - CELL_SIZE, SCREEN_HEIGHT - CELL_SIZE>>

\* ------------------------------------------------------------------- C2
\* C2: in every state handed to rendering (after the initial placement and
\* at the end of every tick) the food is not on a segment of the snake.
C2_FoodNotOnSnake ==
    pc \in {"draw0", "draw"} => ~(\E i \in 1..Len(positions) : positions[i] = apple_position)

\* end of a tick in which the snake ate (growth pending) with three segments
C2_Witness ==
    /\ pc = "draw"
    /\ Len(positions) = 3
    /\ length = 4

\* ------------------------------------------------------------------- C3
\* C3: update_direction keeps the direction and clears the pending one when
\* the pending direction is the opposite of the current one, adopts and
\* clears any other pending direction, and changes nothing without one.
C3_ReversalRejected ==
    [][pc = "update" =>
        /\ next_direction' = None
        /\ direction' = (IF next_direction = None THEN direction
                         ELSE IF next_direction = Opposite(direction) THEN direction
                         ELSE next_direction)
        /\ (next_direction = None => UNCHANGED <<snake, apple_position>>)
        /\ UNCHANGED <<position, positions, length, last_tail, apple_position>>]_vars

\* the spec's scenario: three segments heading Right, Left asked, still Right
C3_Witness ==
    /\ pc = "move"
    /\ Len(positions) = 3
    /\ dir0 = RIGHT
    /\ last_key = "K_LEFT"
    /\ direction = RIGHT
    /\ next_direction = None

\* ------------------------------------------------------------------- C4
\* C4: while the snake has 1, 2 or 3 segments its head is on no other
\* segment, so the self-collision test is never true for such a snake.
C4_NoCollisionUpTo3 ==
    Len(positions) <= 3 => (~HeadOnBody(positions) /\ ~SelfCollision(positions))

\* the collision test is about to run on a 3-segment snake whose head has
\* come round the torus to the cell right behind its own tail
C4_Witness ==
    /\ pc = "collide"
    /\ Len(positions) = 3
    /\ positions[1] = Neighbour(positions[2], direction)
    /\ positions[3] = Neighbour(positions[1], direction)

\* ------------------------------------------------------------------- C5
\* C5: grow (length += 1) happens when the segment count equals length and
\* leaves the segments alone; nothing changes the segments until the next
\* move; that move adds the new head, removes no tail and records no
\* vacated cell, so the count is one more than before the grow.
C5_Growth ==
    [][/\ (pc = "eat" /\ pc' = "respawn_eat") =>
            /\ Len(positions) = length
            /\ length' = length + 1
            /\ positions' = positions
       /\ (Len(positions) + 1 = length /\ pc # "move") =>
            /\ positions' = positions
            /\ length' = length
       /\ (Len(positions) + 1 = length /\ pc = "move") =>
            /\ Len(positions') = Len(positions) + 1
            /\ Rest(positions') = positions
            /\ last_tail' = None
            /\ length' = length]_vars

\* right after the move that realised a growth from 2 to 3 segments
C5_Witness ==
    /\ pc = "eat"
    /\ Len(positions) = 3
    /\ length = 3
    /\ last_tail = None

\* ------------------------------------------------------------------- C6
\* C6: with no growth pending (segment count = length) move keeps the
\* segment count and records the removed tail as the vacated cell.
C6_SteadyState ==
    [][(pc = "move" /\ Len(positions) = length) =>
            /\ Len(positions') = Len(positions)
            /\ last_tail' = positions[Len(positions)]
            /\ Rest(positions') = SubSeq(positions, 1, Len(positions) - 1)]_vars

\* right after a steady move of a 3-segment snake: the vacated cell is the
\* toroidal neighbour behind the new tail
C6_Witness ==
    /\ pc = "eat"
    /\ Len(positions) = 3
    /\ length = 3
    /\ last_tail # None
    /\ \E d \in Direction : positions[3] = Neighbour(last_tail, d)

\* ------------------------------------------------------------------- C7
\* C7: the segment list has a duplicate only between the move that put the
\* head on a body cell and the collision test of the same tick, which then
\* detects it; at the end of every tick the list has no duplicate.
C7_NoDuplicates ==
    /\ pc \notin {"eat", "collide"} => NoDuplicates(positions)
    /\ ~NoDuplicates(positions) => SelfCollision(positions)

\* the collision test is about to run on a list with a duplicate
C7_Witness ==
    /\ pc = "collide"
    /\ ~NoDuplicates(positions)

\* ------------------------------------------------------------------- C8
\* C8 as stated: length >= 1 and, in every state outside move, the segment
\* count equals length.
C8_Original_CountEqualsLength ==
    /\ length >= 1
    /\ Len(positions) = length

\* C8 amended: length >= 1, and the segment count equals length except from
\* the eating of the food until the next move, where it is length - 1 (the
\* end of the tick in which the food was eaten included).
C8_CountTracksLength ==
    /\ length >= 1
    /\ Len(positions) >= 1
    /\ Len(positions) \in {length, length - 1}
    /\ pc \in {"start", "draw0", "eat", "respawn_reset"} => Len(positions) = length
    /\ pc = "respawn_eat" => Len(positions) = length - 1

\* end of the tick in which the food was eaten: one segment short
C8_Witness ==
    /\ pc = "draw"
    /\ Len(positions) = 2
    /\ length = 3
    /\ last_tail # None

\* ------------------------------------------------------------------- C9
\* C9: when the collision test finds the head on a body cell, the snake is
\* put back in its creation state (length 1, the center cell alone, head
\* alias on it, direction Right, nothing pending, no vacated cell), stays so
\* to the end of the tick, and the food is respawned off the center cell.
CreationState ==
    /\ length = 1
    /\ positions = <<CenterCell>>
    /\ position = CenterCell
    /\ direction = <<CELL_SIZE, 0>>
    /\ next_direction = None
    /\ last_tail = None

C9_ResetToCreation ==
    [][/\ (pc = "collide" /\ HeadOnBody(positions)) =>
            (CreationState' /\ pc' = "respawn_reset")
       /\ (pc = "collide" /\ ~HeadOnBody(positions)) => pc' = "draw"
       /\ pc = "respawn_reset" =>
            /\ CreationState'
            /\ pc' \in {"respawn_reset", "draw"}
            /\ pc' = "draw" => (InGrid(apple_position') /\ apple_position' # CenterCell)]_vars

\* end of a tick that reset: a snake of length 1 with no vacated cell (a
\* move of a length-1 snake always records one)
C9_Witness ==
    /\ pc = "draw"
    /\ CreationState
    /\ apple_position # CenterCell

\* ------------------------------------------------------------------ C10
\* what update_direction makes of the tick's first direction and the last
\* arrow key drained
Expected(d, k) ==
    IF Asked(k) = None THEN d
    ELSE IF Asked(k) = Opposite(d) THEN d
    ELSE Asked(k)

\* C10 as stated: the direction after the tick is the last arrow key's
\* direction unless that is opposite to the tick's first direction, and the
\* unchanged direction otherwise.
C10_Original_DirectionAfterTick ==
    pc = "draw" => direction = Expected(dir0, last_key)

\* C10 amended: when update_direction runs, the pending direction is the
\* last arrow key drained in the tick (none if no arrow key was drained);
\* the snake moves, eats and is tested for collision with the direction
\* Expected; the direction after the tick is Expected too unless the tick
\* ended in a reset, which sets it to Right.
C10_LastWriteWins ==
    /\ pc = "update" => (next_direction = Asked(last_key) /\ direction = dir0)
    /\ pc \in {"move", "eat", "respawn_eat", "collide"} => direction = Expected(dir0, last_key)
    /\ pc = "respawn_reset" => direction = <<CELL_SIZE, 0>>
    /\ pc = "draw" => \/ direction = Expected(dir0, last_key)
                      \/ CreationState

\* two arrow keys drained in one tick, the first one Up would have turned
\* the snake, the last one Left is the pending direction
C10_Witness ==
    /\ pc = "update"
    /\ first_key = "K_UP"
    /\ last_key = "K_LEFT"
    /\ next_direction = LEFT
    /\ direction = RIGHT

\* ------------------------------------------------------------------ C11
\* C11: whenever randomize_position returns (at the initial placement, after
\* eating, after a reset), the committed food position is a cell of the grid
\* that is not in the forbidden list it was given (the snake's segments).
C11_RespawnAvoidsForbidden ==
    [][(pc \in {"start", "respawn_eat", "respawn_reset"} /\ pc' # pc) =>
            /\ InGrid(apple_position')
            /\ \A i \in 1..Len(positions) : positions[i] # apple_position'
            /\ positions' = positions]_vars

\* the respawn after eating has returned, the forbidden list had 3 segments
C11_Witness ==
    /\ pc = "collide"
    /\ Len(positions) = 3
    /\ length = 4
    /\ \A i \in 1..3 : positions[i] # apple_position

\* ------------------------------------------------------------------ C12
\* every cell of the grid is in the list
CoversGrid(ps) ==
    \A x \in 0..(GRID_WIDTH - 1), y \in 0..(GRID_HEIGHT - 1) :
        \E i \in 1..Len(ps) : ps[i] = <<x * CELL_SIZE, y * CELL_SIZE>>

\* C12: under fair sampling, a respawn whose forbidden list does not cover
\* the grid eventually commits a position and returns to its caller.
C12_RespawnTerminates ==
    /\ (pc = "start" /\ ~CoversGrid(positions)) ~> (pc = "draw0")
    /\ (pc = "respawn_eat" /\ ~CoversGrid(positions)) ~> (pc = "collide")

\* the respawn has returned although a single cell of the grid was free
C12_Witness ==
    /\ pc = "collide"
    /\ Len(positions) = GRID_WIDTH * GRID_HEIGHT - 1
    /\ length = GRID_WIDTH * GRID_HEIGHT
    /\ \A i \in 1..Len(positions) : positions[i] # apple_position

\* ------------------------------------------------------------------ C13
\* C13: the segments cover the whole grid only when the snake has just eaten
\* the food on the last free cell; the respawn then invoked never returns:
\* no step changes anything any more, so the tick never ends and no later
\* tick occurs.
C13_FullGridHang ==
    [][/\ CoversGrid(positions) =>
            /\ pc \in {"eat", "respawn_eat"}
            /\ get_head_position(positions) = apple_position
       /\ (pc = "eat" /\ CoversGrid(positions)) => pc' = "respawn_eat"
       /\ (pc = "respawn_eat" /\ CoversGrid(positions)) => UNCHANGED vars]_vars

\* the respawn is running with every cell of the grid forbidden
C13_Witness ==
    /\ pc = "respawn_eat"
    /\ CoversGrid(positions)
    /\ Len(positions) = GRID_WIDTH * GRID_HEIGHT
    /\ length = GRID_WIDTH * GRID_HEIGHT + 1

\* ------------------------------------------------------------------ C14
\* C14: a drained QUIT event ends the loop at once: the step that drains it
\* leaves main() from handle_keys with segments, head alias, direction,
\* length, vacated cell and food as the previous tick left them (draining
\* changes none of them, and neither does the drawing that ended that
\* tick), and nothing runs after it.
C14_QuitIsImmediate ==
    [][/\ quit_seen' => pc' = "exit"
       /\ (pc' = "exit" /\ pc # "exit") => pc = "keys"
       /\ pc \in {"draw", "keys"} =>
            UNCHANGED <<position, positions, length, direction, last_tail, apple_position>>
       /\ pc = "exit" => UNCHANGED vars]_vars

\* the loop was left with the Up key still pending and not applied
C14_Witness ==
    /\ pc = "exit"
    /\ quit_seen
    /\ last_key = "K_UP"
    /\ next_direction = UP
    /\ direction = RIGHT
    /\ Len(positions) = 2

\* ------------------------------------------------------------------ C15
\* the cell next to p in direction d, the edges of the grid identified
TorusStep(p, d) ==
    <<IF p[1] + d[1] >= SCREEN_WIDTH THEN 0
      ELSE IF p[1] + d[1] < 0 THEN SCREEN_WIDTH - CELL_SIZE
      ELSE p[1] + d[1],
      IF p[2] + d[2] >= SCREEN_HEIGHT THEN 0
      ELSE IF p[2] + d[2] < 0 THEN SCREEN_HEIGHT - CELL_SIZE
      ELSE p[2] + d[2]>>

\* C15: move puts the new head on the toroidal neighbour of the old head in
\* the current direction, keeps the old segments in order behind it, drops
\* the old tail exactly when the count would exceed length, and leaves
\* direction, pending direction, length and food alone.
C15_MoveShiftsBody ==
    [][pc = "move" =>
            /\ positions'[1] = TorusStep(positions[1], direction)
            /\ position' = positions'[1]
            /\ Rest(positions') = (IF Len(positions) + 1 > length
                                   THEN SubSeq(positions, 1, Len(positions) - 1)
                                   ELSE positions)
            /\ UNCHANGED <<direction, next_direction, length, apple_position>>]_vars

\* a 3-segment snake has just moved Right from the last column to column 0
C15_Witness ==
    /\ pc = "eat"
    /\ direction = RIGHT
    /\ Len(positions) = 3
    /\ length = 3
    /\ positions[1][1] = 0
    /\ positions[2][1] = SCREEN_WIDTH - CELL_SIZE
    /\ positions[1][2] = positions[2][2]
    /\ last_tail # None

\* ------------------------------------------------------------------ C16
\* C16: whenever a snake of 2 or more segments moves, the new head is not
\* the cell of its neck (the segment at index 1 before the move).
C16_NeverIntoNeck ==
    [][(pc = "move" /\ Len(positions) >= 2) => positions'[1] # positions[2]]_vars

\* right after eating, the player asked for Up while heading Down: the
\* reversal was rejected and the snake grew to 3 segments moving on Down
C16_Witness ==
    /\ pc = "eat"
    /\ dir0 = DOWN
    /\ last_key = "K_UP"
    /\ direction = DOWN
    /\ Len(positions) = 3
    /\ last_tail = None
    /\ positions[1] = TorusStep(positions[2], DOWN)

\* ------------------------------------------------------------------ C17
\* C17: the vacated cell recorded by move, when there is one, is not a
\* segment of the snake (in particular not its new head).
C17_VacatedCellIsFree ==
    last_tail # None => \A i \in 1..Len(positions) : positions[i] # last_tail

\* a 4-segment snake turning in a 2 x 2 square has moved its head onto the
\* cell its tail has just left
C17_HeadOnVacatedCell ==
    /\ pc = "draw"
    /\ Len(positions) = 4
    /\ length = 4
    /\ direction = DOWN
    /\ positions[2] = TorusStep(positions[3], RIGHT)
    /\ positions[3] = TorusStep(positions[4], UP)
    /\ last_tail = positions[1]

\* ------------------------------------------------------------------ C18
\* C18: in a tick in which the head lands on the food (length is incremented
\* and the food respawned) the head is on no body cell, so the collision
\* test of that tick is false and no reset wipes the growth.
C18_EatExcludesCollision ==
    /\ (pc = "eat" /\ positions[1] = apple_position) => ~HeadOnBody(positions)
    /\ pc = "respawn_eat" => ~HeadOnBody(positions)
    /\ (pc = "collide" /\ Len(positions) < length) =>
            (~HeadOnBody(positions) /\ ~SelfCollision(positions))

\* the collision test is about to run in a tick in which a snake long enough
\* to hit itself has eaten, its head next to a body cell behind the neck
C18_Witness ==
    /\ pc = "collide"
    /\ Len(positions) = GRID_WIDTH + 1
    /\ length = GRID_WIDTH + 2
    /\ \E i \in 3..Len(positions), d \in Direction : positions[i] = TorusStep(positions[1], d)

\* ------------------------------------------------------------------ C19
\* C19: a tick whose head is not on the food and whose collision test is
\* false changes neither food nor length; length changes only by +1 when
\* the head is on the food, or to 1 by a reset; the food changes only in a
\* respawn.
C19_FoodAndLengthFrame ==
    [][/\ (pc = "eat" /\ positions[1] # apple_position) =>
            (pc' = "collide" /\ UNCHANGED <<length, apple_position>>)
       /\ (pc = "eat" /\ positions[1] = apple_position) =>
            (pc' = "respawn_eat" /\ length' = length + 1)
       /\ (pc = "collide" /\ ~HeadOnBody(positions)) =>
            (pc' = "draw" /\ UNCHANGED <<length, apple_position>>)
       /\ length' # length =>
            \/ (pc = "eat" /\ positions[1] = apple_position /\ length' = length + 1)
            \/ (pc = "collide" /\ HeadOnBody(positions) /\ length' = 1)
       /\ apple_position' # apple_position =>
            pc \in {"start", "respawn_eat", "respawn_reset"}]_vars

\* end of a tick of a 3-segment snake that neither ate nor hit itself
C19_Witness ==
    /\ pc = "draw"
    /\ Len(positions) = 3
    /\ length = 3
    /\ last_tail # None
    /\ ~HeadOnBody(positions)
    /\ positions[1] # apple_position

====
